---- MODULE Spec2Model ----
(***************************************************************************)
(* Model of fetchdata.py: class FetchData with its two operations,         *)
(* fetch_yahoo_finance (bounded retry on HTTP 429, then parsing) and       *)
(* fetch_vietcap (one POST, a pause of `delay` seconds, then parsing).     *)
(* One behaviour is one call on one constructed FetchData object.  The     *)
(* provider is the environment: it picks the status code when a request is *)
(* made and the body when response.json() decodes it.                      *)
(***************************************************************************)
EXTENDS Integers, Sequences, FiniteSets, TLC

VARIABLES max_retries, delay, op, symbol, pc, attempt, response, body,
          events, result, error

vars == <<max_retries, delay, op, symbol, pc, attempt, response, body,
          events, result, error>>

(* ------------------------------ bounds -------------------------------- *)

\* max_retries is drawn from 0..MaxRetriesBound
MaxRetriesBound == 3
\* longest array of bars in a response body
MaxBars == 2
\* most entries in a Vietcap response body
MaxEntries == 2

(* ----------------------------- constants ------------------------------ *)

HTTP_OK == 200
HTTP_TOO_MANY == 429
SecondsPerDay == 86400

StatusCodes == {HTTP_OK, HTTP_TOO_MANY, 404, 500}
Symbols == {"^GSPC", "VNINDEX"}
DelayValues == {0, 1}

(* ------------------------------- cells -------------------------------- *)
\* A JSON / DataFrame cell.  "num" is a number, "numstr" a string that
\* holds a number, "str" any other string, "null" JSON null (None),
\* "nan" pandas' missing-value marker.
Num(n) == [k |-> "num", v |-> n]
NumStr(n) == [k |-> "numstr", v |-> n]
Str == [k |-> "str", v |-> 0]
Null == [k |-> "null", v |-> 0]
NaN == [k |-> "nan", v |-> 0]
NaT == [day |-> -1, tod |-> -1]

IsNA(c) == c.k \in {"null", "nan"}

SeqsUpTo(S, n) == UNION {[1..k -> S] : k \in 0..n}

QuoteCols == <<"open", "high", "low", "close", "volume">>
Range(s) == {s[i] : i \in DOMAIN s}

(* ------------------------- values of the state ------------------------ *)

NoResponse == [bound |-> FALSE, status_code |-> 0]
NoError == [kind |-> "none", code |-> 0, msg |-> ""]
NoTable == [columns |-> <<>>, index |-> <<>>, rows |-> <<>>]
NoBody == [shape |-> "None"]

Request(st) == [e |-> "request", n |-> st]
Sleep(secs) == [e |-> "sleep", n |-> secs]

HttpError(st) == [kind |-> "Exception", code |-> st, msg |-> "Error"]
InvalidFormat == [kind |-> "ValueError", code |-> 0, msg |-> "Invalid response format"]
PyError(kind) == [kind |-> kind, code |-> 0, msg |-> ""]

(* ------------------------- Yahoo response bodies ---------------------- *)

\* one bar of the provider, before it is laid out as parallel arrays
YahooTimes == {1357137000, 1357223400}
MissingSets == {{}, {"open"}, {"high"}, {"low"}, {"close"}, {"volume"}}
YahooValue(c) ==
    CASE c = "open" -> Num(10) [] c = "high" -> Num(12) [] c = "low" -> Num(9)
      [] c = "close" -> Num(11) [] c = "volume" -> Num(1000)
YahooBars ==
    {[c \in Range(QuoteCols) \cup {"t"} |->
        IF c = "t" THEN Num(ts) ELSE IF c \in m THEN Null ELSE YahooValue(c)]
     : ts \in YahooTimes, m \in MissingSets}

\* the result object: its keys, the timestamp array, indicators.quote[0]
YahooResult(keys, bars) ==
    [keys |-> keys,
     timestamp |-> [i \in DOMAIN bars |-> bars[i]["t"]],
     quote |-> [c \in Range(QuoteCols) |-> [i \in DOMAIN bars |-> bars[i][c]]]]

YahooShapes == {"NotJson", "NoChart", "ChartNull", "NoResult", "ResultNull",
                "ResultEmpty"}
YahooBodies ==
    {[shape |-> s, data |-> YahooResult({}, <<>>)] : s \in YahooShapes}
    \cup {[shape |-> "Result", data |-> YahooResult(keys, <<>>)]
          : keys \in {{}, {"timestamp"}, {"indicators"}}}
    \cup {[shape |-> "Result", data |-> YahooResult({"timestamp", "indicators"}, bars)]
          : bars \in SeqsUpTo(YahooBars, MaxBars)}

(* ------------------------ Vietcap response bodies --------------------- *)

VietcapKeys == <<"o", "h", "l", "c", "v", "t">>
VietcapBars ==
    {[o |-> Num(10), h |-> Num(12), l |-> Num(9), c |-> Num(11),
      v |-> Num(1000), t |-> Num(100)],
     [o |-> Null, h |-> Num(13), l |-> Num(9), c |-> Str,
      v |-> NumStr(1500), t |-> Num(200)]}
VietcapEntry(bars) ==
    [key \in Range(VietcapKeys) |-> [i \in DOMAIN bars |-> bars[i][key]]]
VietcapEntries == {VietcapEntry(bars) : bars \in SeqsUpTo(VietcapBars, MaxBars)}
VietcapBodies ==
    {[shape |-> "NotJson", entries |-> <<>>]}
    \cup {[shape |-> "List", entries |-> es] : es \in SeqsUpTo(VietcapEntries, MaxEntries)}

(* ------------------------------ pandas -------------------------------- *)

\* pd.to_datetime(x, unit="s"): seconds since the epoch to a calendar
\* timestamp (day number, time of day); a missing value gives NaT
ToDatetime(c) ==
    IF IsNA(c) THEN NaT
    ELSE [day |-> c.v \div SecondsPerDay, tod |-> c.v % SecondsPerDay]

\* DatetimeIndex.normalize(): the time of day is set to midnight
Normalize(ts) == IF ts = NaT THEN NaT ELSE [day |-> ts.day, tod |-> 0]

\* pd.to_numeric(x, errors="coerce") of one cell
ToNumeric(c) ==
    CASE c.k = "num" -> c
      [] c.k = "numstr" -> Num(c.v)
      [] OTHER -> NaN

\* pd.DataFrame(dict of equal-length arrays): one row per position
DataFrameFromDict(quote) ==
    [columns |-> QuoteCols,
     index |-> [i \in DOMAIN quote["open"] |-> i],
     rows |-> [i \in DOMAIN quote["open"] |-> [c \in Range(QuoteCols) |-> quote[c][i]]]]

\* df["time"] = ...; df.set_index("time")
SetTimeIndex(df, times) ==
    [columns |-> df.columns, index |-> times, rows |-> df.rows]

\* the positions of a sequence of flags that are TRUE, in order
RECURSIVE KeptPositions(_, _)
KeptPositions(flags, i) ==
    IF i > Len(flags) THEN <<>>
    ELSE (IF flags[i] THEN <<i>> ELSE <<>>) \o KeptPositions(flags, i + 1)

\* df.loc[positions]
TakeRows(df, idx) ==
    [columns |-> df.columns,
     index |-> [j \in DOMAIN idx |-> df.index[idx[j]]],
     rows |-> [j \in DOMAIN idx |-> df.rows[idx[j]]]]

DropnaFirstColumnOnly(df) ==
    TakeRows(df, KeptPositions([i \in DOMAIN df.rows |->
                                 ~IsNA(df.rows[i][df.columns[1]])], 1))

\* df.dropna(): drop every row that holds a missing value in any column
Dropna(df) ==
    TakeRows(df, KeptPositions([i \in DOMAIN df.rows |->
                                 \A c \in Range(df.columns) : ~IsNA(df.rows[i][c])], 1))

AssignHardCoded(df, name, value) ==
    [columns |-> IF name \in Range(df.columns) THEN df.columns
                 ELSE Append(df.columns, name),
     index |-> df.index,
     rows |-> [i \in DOMAIN df.rows |->
                [c \in Range(df.columns) \cup {name} |->
                    IF c = name THEN "^GSPC" ELSE df.rows[i][c]]]]

\* df.assign(name=value): a constant column called `name`
Assign(df, name, value) ==
    [columns |-> IF name \in Range(df.columns) THEN df.columns
                 ELSE Append(df.columns, name),
     index |-> df.index,
     rows |-> [i \in DOMAIN df.rows |->
                [c \in Range(df.columns) \cup {name} |->
                    IF c = name THEN value ELSE df.rows[i][c]]]]

\* pd.DataFrame(list of entries).explode([...]): one row per element of
\* the parallel arrays of each entry; an entry whose arrays are empty
\* gives one row of NaN
Explode(entries) ==
    LET RECURSIVE go(_)
        go(e) == IF e > Len(entries) THEN <<>>
                 ELSE (IF Len(entries[e]["t"]) = 0
                       THEN <<[key \in Range(VietcapKeys) |-> NaN]>>
                       ELSE [i \in DOMAIN entries[e]["t"] |->
                              [key \in Range(VietcapKeys) |-> entries[e][key][i]]])
                      \o go(e + 1)
    IN go(1)

\* .rename(columns={...})
Rename(key) ==
    CASE key = "t" -> "time" [] key = "o" -> "open" [] key = "h" -> "high"
      [] key = "l" -> "low" [] key = "c" -> "close" [] key = "v" -> "volume"


(* ------------------------------ helpers ------------------------------- *)

BackoffFromZero(a) == 5 * a

\* time.sleep(5 * (attempt + 1))
Backoff(a) == 5 * (a + 1)

ClassifyRetriesServerError(st) ==
    IF st = HTTP_OK THEN "ok"
    ELSE IF st = HTTP_TOO_MANY \/ st = 500 THEN "throttle" ELSE "fail"

ClassifyRetriesAfterOK(st) ==
    IF st = HTTP_OK \/ st = HTTP_TOO_MANY THEN "throttle" ELSE "fail"

\* the if / elif / else on response.status_code inside the retry loop
Classify(st) ==
    IF st = HTTP_OK THEN "ok"
    ELSE IF st = HTTP_TOO_MANY THEN "throttle" ELSE "fail"

\* response.json().get("chart", {}).get("result", [{}])[0]
ExtractData(b) ==
    CASE b.shape = "NotJson" -> [err |-> "JSONDecodeError", data |-> b.data]
      [] b.shape = "NoChart" -> [err |-> "", data |-> YahooResult({}, <<>>)]
      [] b.shape = "ChartNull" -> [err |-> "AttributeError", data |-> b.data]
      [] b.shape = "NoResult" -> [err |-> "", data |-> YahooResult({}, <<>>)]
      [] b.shape = "ResultNull" -> [err |-> "TypeError", data |-> b.data]
      [] b.shape = "ResultEmpty" -> [err |-> "IndexError", data |-> b.data]
      [] b.shape = "Result" -> [err |-> "", data |-> b.data]

\* the table fetch_yahoo_finance builds from the result object
YahooTable(data, sym) ==
    LET df == DataFrameFromDict(data.quote)
        times == [i \in DOMAIN data.timestamp |->
                    Normalize(ToDatetime(data.timestamp[i]))]
    IN Assign(Dropna(SetTimeIndex(df, times)), "index", sym)

\* the table fetch_vietcap builds from the entries of the body
VietcapTable(entries, sym) ==
    LET exploded == Explode(entries)
        renamed == [i \in DOMAIN exploded |->
                      [c \in {Rename(key) : key \in Range(VietcapKeys)} |->
                         exploded[i][CHOOSE key \in Range(VietcapKeys) : Rename(key) = c]]]
        times == [i \in DOMAIN renamed |-> ToDatetime(renamed[i]["time"])]
        numeric == [i \in DOMAIN renamed |->
                      [c \in Range(QuoteCols) |-> ToNumeric(renamed[i][c])]]
    IN Assign([columns |-> QuoteCols, index |-> times, rows |-> numeric],
              "index", sym)

(* ------------------------------- state -------------------------------- *)

\* FetchData.__init__
Init ==
    /\ max_retries \in 0..MaxRetriesBound
    /\ delay \in DelayValues
    /\ op = "none"
    /\ symbol = ""
    /\ pc = "idle"
    /\ attempt = 0
    /\ response = NoResponse
    /\ body = NoBody
    /\ events = <<>>
    /\ result = NoTable
    /\ error = NoError

Raise(e) ==
    /\ pc' = "raised"
    /\ error' = e

(* ------------------------ fetch_yahoo_finance ------------------------- *)

\* entry of fetch_yahoo_finance up to the creation of the session
CallYahoo ==
    /\ pc = "idle"
    /\ \E s \in Symbols : symbol' = s
    /\ op' = "fetch_yahoo_finance"
    /\ attempt' = 0
    /\ pc' = "y_loop"
    /\ UNCHANGED <<max_retries, delay, response, body, events, result, error>>

\* one iteration of the for loop begins: response = session.get(url)
YahooGet ==
    /\ pc = "y_loop"
    /\ attempt < max_retries
    /\ \E st \in StatusCodes :
          /\ response' = [bound |-> TRUE, status_code |-> st]
          /\ events' = Append(events, Request(st))
    /\ pc' = "y_check"
    /\ UNCHANGED <<max_retries, delay, op, symbol, attempt, body, result, error>>

\* the body of the loop after the request: break, sleep, or raise
YahooCheck ==
    /\ pc = "y_check"
    /\ LET c == Classify(response.status_code) IN
         \/ /\ c = "ok"
            /\ pc' = "y_parse"
            /\ UNCHANGED <<attempt, events, error>>
         \/ /\ c = "throttle"
            /\ events' = Append(events, Sleep(Backoff(attempt)))
            /\ attempt' = attempt + 1
            /\ pc' = "y_loop"
            /\ UNCHANGED error
         \/ /\ c = "fail"
            /\ Raise(HttpError(response.status_code))
            /\ UNCHANGED <<attempt, events>>
    /\ UNCHANGED <<max_retries, delay, op, symbol, response, body, result>>

YahooExhaustedRaises ==
    /\ pc = "y_loop"
    /\ attempt >= max_retries
    /\ Raise(PyError("RetriesExhausted"))
    /\ UNCHANGED <<max_retries, delay, op, symbol, attempt, response, body,
                   events, result>>

\* range(self.max_retries) is used up: the loop ends, no else clause
YahooExhausted ==
    /\ pc = "y_loop"
    /\ attempt >= max_retries
    /\ pc' = "y_parse"
    /\ UNCHANGED <<max_retries, delay, op, symbol, attempt, response, body,
                   events, result, error>>

\* the loop body never ran (max_retries = 0): `response` is not bound
YahooParseUnbound ==
    /\ pc = "y_parse"
    /\ ~response.bound
    /\ Raise(PyError("UnboundLocalError"))
    /\ UNCHANGED <<max_retries, delay, op, symbol, attempt, response, body,
                   events, result>>

\* decoding the body, the shape check and the construction of the table
YahooParse ==
    /\ pc = "y_parse"
    /\ response.bound
    /\ \E b \in YahooBodies :
          /\ body' = b
          /\ LET x == ExtractData(b) IN
               IF x.err # ""
               THEN Raise(PyError(x.err)) /\ UNCHANGED result
               ELSE IF "timestamp" \notin x.data.keys \/ "indicators" \notin x.data.keys
               THEN Raise(InvalidFormat) /\ UNCHANGED result
               ELSE /\ result' = YahooTable(x.data, symbol)
                    /\ pc' = "returned"
                    /\ UNCHANGED error
    /\ UNCHANGED <<max_retries, delay, op, symbol, attempt, response, events>>

(* --------------------------- fetch_vietcap ---------------------------- *)

\* entry of fetch_vietcap up to response = requests.post(...)
CallVietcap ==
    /\ pc = "idle"
    /\ \E s \in Symbols : symbol' = s
    /\ op' = "fetch_vietcap"
    /\ \E st \in StatusCodes :
          /\ response' = [bound |-> TRUE, status_code |-> st]
          /\ events' = Append(events, Request(st))
    /\ pc' = "v_sleep"
    /\ UNCHANGED <<max_retries, delay, attempt, body, result, error>>

VietcapSleepOnlyAfterOK ==
    /\ pc = "v_sleep"
    /\ events' = IF response.status_code = HTTP_OK
                 THEN Append(events, Sleep(delay)) ELSE events
    /\ pc' = "v_check"
    /\ UNCHANGED <<max_retries, delay, op, symbol, attempt, response, body,
                   result, error>>

\* time.sleep(self.delay)
VietcapSleep ==
    /\ pc = "v_sleep"
    /\ events' = Append(events, Sleep(delay))
    /\ pc' = "v_check"
    /\ UNCHANGED <<max_retries, delay, op, symbol, attempt, response, body,
                   result, error>>

\* if response.status_code != 200: raise
VietcapCheck ==
    /\ pc = "v_check"
    /\ IF response.status_code # HTTP_OK
       THEN Raise(HttpError(response.status_code))
       ELSE pc' = "v_parse" /\ UNCHANGED error
    /\ UNCHANGED <<max_retries, delay, op, symbol, attempt, response, body,
                   events, result>>

\* decoding the body and the construction of the table
VietcapParse ==
    /\ pc = "v_parse"
    /\ \E b \in VietcapBodies :
          /\ body' = b
          /\ IF b.shape = "NotJson"
             THEN Raise(PyError("JSONDecodeError")) /\ UNCHANGED result
             ELSE IF Len(b.entries) = 0
             THEN Raise(PyError("KeyError")) /\ UNCHANGED result
             ELSE /\ result' = VietcapTable(b.entries, symbol)
                  /\ pc' = "returned"
                  /\ UNCHANGED error
    /\ UNCHANGED <<max_retries, delay, op, symbol, attempt, response, events>>

Next ==
    \/ CallYahoo
    \/ YahooGet
    \/ YahooCheck
    \/ YahooExhausted
    \/ YahooParseUnbound
    \/ YahooParse
    \/ CallVietcap
    \/ VietcapSleep
    \/ VietcapCheck
    \/ VietcapParse

Spec == Init /\ [][Next]_vars

\* the calls are synchronous and every HTTP call is assumed to return, so
\* a call that can take a step takes it
FairSpec == Spec /\ WF_vars(Next)


(* ------------------------ vocabulary of the claims -------------------- *)

Terminal == {"returned", "raised"}
IsYahoo == op = "fetch_yahoo_finance"
IsVietcap == op = "fetch_vietcap"

RequestEvents == SelectSeq(events, LAMBDA ev : ev.e = "request")
SleepEvents == SelectSeq(events, LAMBDA ev : ev.e = "sleep")
Statuses == [i \in DOMAIN RequestEvents |-> RequestEvents[i].n]
Sleeps == [i \in DOMAIN SleepEvents |-> SleepEvents[i].n]

\* k answers 429, then one answer 200
ThrottledThenOK(k) == [i \in 1..(k + 1) |-> IF i <= k THEN 429 ELSE 200]
\* request, sleep 5, request, sleep 10, ..., sleep 5k, request
RetryEvents(k) ==
    [j \in 1..(2 * k + 1) |->
        IF j % 2 = 0 THEN [e |-> "sleep", n |-> 5 * (j \div 2)]
        ELSE [e |-> "request", n |-> IF j < 2 * k + 1 THEN 429 ELSE 200]]

\* C1: in fetch_yahoo_finance, when the provider answers 429 to the first k
\* requests (k < max_retries) and 200 to request k+1, the events of the call
\* are exactly k+1 requests with k sleeps of 5, 10, ..., 5k seconds, each
\* between a 429 and the next request, and the call goes on to parsing
\* without raising the HTTP error.
C1_RetryThenSuccess ==
    IsYahoo =>
      \A k \in 0..(max_retries - 1) :
         Statuses = ThrottledThenOK(k) =>
            /\ events = RetryEvents(k)
            /\ pc \in {"y_check", "y_parse", "returned", "raised"}
            /\ error.kind # "Exception"

C1_Witness ==
    /\ IsYahoo
    /\ Statuses = <<429, 429, 200>>
    /\ Sleeps = <<5, 10>>
    /\ Len(RequestEvents) = 3
    /\ pc = "returned"

\* C2: a hard-failure status is never retried.  In fetch_yahoo_finance a
\* response that is neither 200 nor 429 is the last event of the call (no
\* request and no sleep follows) and the call ends raised with that status
\* code; in fetch_vietcap exactly one request is made and a status other
\* than 200 ends the call raised with that status code.
C2_HardFailureNotRetried ==
    /\ IsYahoo =>
         \A i \in DOMAIN events :
            (events[i].e = "request" /\ events[i].n \notin {200, 429}) =>
               /\ i = Len(events)
               /\ pc \in {"y_check", "raised"}
               /\ pc = "raised" => (error.kind = "Exception" /\ error.code = events[i].n)
    /\ IsVietcap =>
         /\ Len(RequestEvents) = 1
         /\ response.status_code # 200 =>
               /\ pc \in {"v_sleep", "v_check", "raised"}
               /\ pc = "raised" =>
                     (error.kind = "Exception" /\ error.code = response.status_code)

C2_Witness ==
    /\ IsYahoo
    /\ Statuses = <<429, 404>>
    /\ Sleeps = <<5>>
    /\ pc = "raised"
    /\ error.code = 404

\* C3 as stated: in fetch_vietcap the pause is taken exactly when the
\* status is 200; a call whose status is not 200 fails without the pause.
C3_PauseOnlyAfterOK ==
    (IsVietcap /\ pc \in {"v_parse", "returned", "raised"}) =>
       (Len(SleepEvents) = 1 <=> response.status_code = 200)

\* C3 amended: in fetch_vietcap the pause of `delay` seconds is taken
\* exactly once in every call, right after the response arrives and before
\* the status check, whatever the status code; after a 200 it precedes
\* parsing, and a call whose status is not 200 fails only after the pause.
C3_PauseAfterEveryResponse ==
    IsVietcap =>
       IF pc = "v_sleep"
       THEN events = <<[e |-> "request", n |-> response.status_code]>>
       ELSE events = <<[e |-> "request", n |-> response.status_code],
                       [e |-> "sleep", n |-> delay]>>

C3_Witness ==
    /\ IsVietcap
    /\ response.status_code = 404
    /\ pc = "raised"
    /\ Sleeps = <<delay>>

\* C4: in fetch_yahoo_finance with max_retries >= 1, when every one of the
\* max_retries attempts is answered 429, exactly max_retries requests are
\* made, the retry loop raises neither an HTTP error nor a retries-exhausted
\* error, and the call goes on to parse the last (429) response.
C4_ExhaustionFallsThrough ==
    (IsYahoo /\ max_retries >= 1 /\ Statuses = [i \in 1..max_retries |-> 429]) =>
       /\ Len(RequestEvents) = max_retries
       /\ pc \in {"y_check", "y_loop", "y_parse", "returned", "raised"}
       /\ error.kind \notin {"Exception", "RetriesExhausted"}
       /\ response.status_code = 429
       /\ pc \in Terminal => body.shape # "None"

C4_Witness ==
    /\ IsYahoo
    /\ max_retries = 2
    /\ Statuses = <<429, 429>>
    /\ pc \in Terminal
    /\ body.shape # "None"

\* the body that was parsed has no result object, or one that lacks
\* `timestamp` or `indicators`
LacksResultFields ==
    \/ body.shape \in {"NoChart", "NoResult", "ResultNull", "ResultEmpty"}
    \/ /\ body.shape = "Result"
       /\ ~({"timestamp", "indicators"} \subseteq body.data.keys)

\* C5: in fetch_yahoo_finance, whenever the parsed response has no result
\* object or one lacking `timestamp` or `indicators`, the call ends with
\* ValueError "Invalid response format" and returns no table.
C5_MalformedIsValueError ==
    (IsYahoo /\ body.shape # "None" /\ LacksResultFields) =>
       /\ pc = "raised"
       /\ error.kind = "ValueError"
       /\ error.msg = "Invalid response format"
       /\ result = NoTable

\* C6 as stated: every returned table has a column named `symbol` that
\* holds the requested symbol in every row.
C6_SymbolColumn ==
    pc = "returned" =>
       /\ "symbol" \in Range(result.columns)
       /\ \A i \in DOMAIN result.rows : result.rows[i]["symbol"] = symbol

\* C6 amended: every returned table has a column named `index` that holds
\* the requested symbol in every row.
C6_IndexColumn ==
    pc = "returned" =>
       /\ "index" \in Range(result.columns)
       /\ \A i \in DOMAIN result.rows :
             /\ "index" \in DOMAIN result.rows[i]
             /\ result.rows[i]["index"] = symbol

C6_Witness ==
    /\ pc = "returned"
    /\ symbol = "VNINDEX"
    /\ Len(result.rows) = 2
    /\ \A i \in DOMAIN result.rows : result.rows[i]["index"] = "VNINDEX"


(* --------------------------- C7 and C8 -------------------------------- *)

\* positions of the Yahoo arrays where none of the five values is missing
YahooComplete ==
    {i \in DOMAIN body.data.timestamp :
        \A c \in Range(QuoteCols) : body.data.quote[c][i].k # "null"}
\* the j-th smallest of them
NthComplete(j) ==
    CHOOSE i \in YahooComplete : Cardinality({x \in YahooComplete : x <= i}) = j

\* the bars of a Vietcap body in provider order, as <<entry, position>>
RECURSIVE FlatBars(_, _)
FlatBars(entries, e) ==
    IF e > Len(entries) THEN <<>>
    ELSE [i \in DOMAIN entries[e]["t"] |-> <<e, i>>] \o FlatBars(entries, e + 1)

ShortKey(c) ==
    CASE c = "open" -> "o" [] c = "high" -> "h" [] c = "low" -> "l"
      [] c = "close" -> "c" [] c = "volume" -> "v"

\* an output cell carries an input cell: the number itself, or the
\* missing-value marker when the input is missing or not a number
Carries(out, in) ==
    IF in.k \in {"num", "numstr"} THEN out.k = "num" /\ out.v = in.v
    ELSE out.k = "nan"

\* row j of the returned table is bar b = <<entry, position>> of the body
IsBar(j, b) ==
    LET en == body.entries[b[1]] IN
    /\ result.index[j].day * 86400 + result.index[j].tod = en["t"][b[2]].v
    /\ \A c \in Range(QuoteCols) :
          Carries(result.rows[j][c], en[ShortKey(c)][b[2]])

\* bars[i..] appear, in order, among rows j.. of the returned table
RECURSIVE Embeds(_, _, _)
Embeds(bars, i, j) ==
    IF i > Len(bars) THEN TRUE
    ELSE IF j > Len(result.rows) THEN FALSE
    ELSE IF IsBar(j, bars[i]) THEN Embeds(bars, i + 1, j + 1)
    ELSE Embeds(bars, i, j + 1)

\* C7: missing-value policy.  fetch_yahoo_finance returns exactly the
\* positions where none of open, high, low, close, volume is missing, in
\* provider order; fetch_vietcap drops no bar: every bar of the body is a
\* row of the table, in order, with the missing-value marker in each cell
\* that is missing or cannot be coerced.
C7_MissingValuePolicy ==
    /\ (IsYahoo /\ pc = "returned") =>
          /\ Len(result.rows) = Cardinality(YahooComplete)
          /\ \A j \in DOMAIN result.rows :
                /\ result.index[j].day =
                      body.data.timestamp[NthComplete(j)].v \div 86400
                /\ \A c \in Range(QuoteCols) :
                      result.rows[j][c] = body.data.quote[c][NthComplete(j)]
    /\ (IsVietcap /\ pc = "returned") =>
          /\ Len(result.rows) >= Len(FlatBars(body.entries, 1))
          /\ Embeds(FlatBars(body.entries, 1), 1, 1)

C7_Witness ==
    /\ IsYahoo
    /\ pc = "returned"
    /\ Len(body.data.timestamp) = 2
    /\ body.data.quote["close"][1] = Null
    /\ Len(result.rows) = 1
    /\ result.rows[1]["close"] = Num(11)

\* C8: in fetch_vietcap the returned table has exactly one row per element
\* of the `t` arrays of the body, in provider order, row by row the time
\* and the five values of that element.
C8_OneRowPerTimestamp ==
    (IsVietcap /\ pc = "returned") =>
       LET bars == FlatBars(body.entries, 1) IN
       /\ Len(result.rows) = Len(bars)
       /\ \A j \in DOMAIN result.rows : IsBar(j, bars[j])

(* --------------------------- C9 and C10 ------------------------------- *)

\* C9: in fetch_yahoo_finance every backoff sleep is followed by another
\* request of the same call before the call parses or returns.
C9_SleepThenRetry ==
    (IsYahoo /\ pc \in {"y_parse", "returned", "raised"}) =>
       \A i \in DOMAIN events :
          events[i].e = "sleep" =>
             (i < Len(events) /\ events[i + 1].e = "request")

\* C10: with max_retries >= 1 a call of fetch_yahoo_finance ends (returned
\* or raised) after at least 1 and at most max_retries requests, and makes
\* no request after a 200 or after a status that is neither 200 nor 429.
C10_BoundedTermination ==
    /\ []((IsYahoo /\ max_retries >= 1) => Len(RequestEvents) <= max_retries)
    /\ []((IsYahoo /\ max_retries >= 1 /\ pc \in Terminal) => Len(RequestEvents) >= 1)
    /\ [][(IsYahoo /\ response.bound /\ response.status_code # 429)
             => events' = events]_vars
    /\ (IsYahoo /\ max_retries >= 1) ~> (pc \in Terminal)

C10_Witness ==
    /\ IsYahoo
    /\ max_retries = 3
    /\ Len(RequestEvents) = 3
    /\ pc \in Terminal

====
